---------------------------- MODULE Spec2Model ----------------------------
(***************************************************************************)
(* A model of redco's Deployer (src/redco/deployers/deployer.py), Trainer  *)
(* (src/redco/trainers/trainer.py) and step functions                      *)
(* (src/redco/trainers/utils.py).                                          *)
(*                                                                         *)
(* Abstractions.                                                           *)
(*  - A JAX PRNG key is the path that leads to it in the split tree of its *)
(*    seed: PRNGKey(s) = <<s>>, split(k) = (k \o <<0>>, k \o <<1>>).  This  *)
(*    is the collision-free reading of jax.random.split.                   *)
(*  - Tensors (parameters, optimizer state, gradients, losses) are small   *)
(*    integers; the user's loss function and optimizer are fixed           *)
(*    representatives (LossFn, GradFn, apply_gradients), and a mean is the *)
(*    sum divided by the count, rounded down.                              *)
(*  - Device arrays live in a heap of immutable buffers; a buffer that a   *)
(*    compiled step received as a donated argument may be deleted.         *)
(*  - A batch's shape is the per-device batch size it was made with and   *)
(*    the number of dimensions of its fields.  pmap and pjit compile anew  *)
(*    for every new argument shape; pjit refuses an argument with fewer    *)
(*    dimensions than its partition spec has entries.                      *)
(*  - Trainer.train hands the compiled step (train_rng, state, batch); the  *)
(*    step functions of utils.py read the state and the batch.             *)
(*  - Code the Trainer and the Deployer call but that is not among the     *)
(*    sources (get_mesh, get_host_batch_size, get_host_examples,           *)
(*    get_data_batches, get_multistep_adamw_optimizer, run_model_step) is  *)
(*    modelled from the specification's description of it.                 *)
(***************************************************************************)
EXTENDS Integers, Sequences, FiniteSets, TLC

\* ------------------------------------------------------------- bounds
MaxKeys == 5        \* gen_rng() calls of the Trainer's Deployer
MaxReplayKeys == 3  \* gen_rng() calls per Deployer called directly
MaxSteps == 3       \* train steps over the whole run
MaxEpochs == 2      \* n_epochs of a fit call
MaxExamples == 3    \* length of an example list
MaxPerDevice == 2   \* per_device_batch_size
PMod == 3           \* tensors take the values 0 .. PMod-1

Seeds == {0, 1}
HostCounts == {1, 2}          \* jax.process_count()
LocalDeviceCounts == {1, 2}   \* jax.local_device_count()
ShardCounts == {1, 2}         \* n_model_shards
Data == {0, 1}                \* what a replica's share of a batch holds
Deployers == {1, 2}           \* Deployer 1 serves the Trainer

VARIABLES
    env,          \* [hosts, devs]: the process environment
    seed,         \* Deployer -> jax_seed
    mesh,         \* Deployer -> self._mesh
    rng,          \* Deployer -> self._rng
    keys,         \* Deployer -> the keys gen_rng() returned, in order
    parents,      \* Deployer -> the values self._rng has held, in order
    ret,          \* the last direct call of a Deployer method: who, what, result
    heap,         \* buffer id -> [val, live]: the device arrays alive
    stateRef,     \* Trainer._state: the id of the buffer holding the state
    snap,         \* what a caller of Trainer.params holds
    p_train_step, \* Trainer._p_train_step
    p_eval_step,  \* Trainer._p_eval_step
    pc,           \* the Trainer's position
    caller,       \* who called train / eval_loss: "user" or "fit"
    todo,         \* batches the running loop still has to process
    last_metrics, \* the metrics the last step delivered
    perReplica,   \* the loss each replica computed in the last step
    losses,       \* eval_loss's list of losses
    fit,          \* the arguments and epoch_idx of the running fit call
    trace,        \* what the running fit call did so far, in order
    nTrained,     \* train batches processed since construction
    n_setup,      \* calls of setup_running_step since construction
    setup_batch,  \* the shape setup_running_step was last called with
    batch_shape   \* the shape of the batches of the running loop

dvars == <<env, seed, mesh, rng, keys, parents, ret>>
tvars == <<heap, stateRef, snap, p_train_step, p_eval_step, pc, caller, todo,
           last_metrics, perReplica, losses, fit, trace, nTrained, n_setup,
           setup_batch, batch_shape>>
vars == <<dvars, tvars>>

\* ------------------------------------------------------------- helpers
RECURSIVE SumOver(_, _)
SumOver(f, S) ==
    IF S = {} THEN 0
    ELSE LET x == CHOOSE y \in S : TRUE IN f[x] + SumOver(f, S \ {x})

CeilDiv(a, b) == (a + b - 1) \div b

\* ------------------------------------------------------------- PRNG
PRNGKey(s) == <<s>>

split(k) == <<Append(k, 0), Append(k, 1)>>

\* ------------------------------------------------------------- mesh
NoMesh == [set |-> FALSE, dp |-> 0, mp |-> 0, local_dp |-> 0]

\* get_mesh(n_model_shards): None for one shard; otherwise all devices in a
\* (data-parallel, model-parallel) grid.  local_dp is the number of rows of the
\* data-parallel axis this host holds a device of.
MeshOk(e, n) == (e.hosts * e.devs) % n = 0

get_mesh(e, n) ==
    IF n = 1 THEN NoMesh
    ELSE [set |-> TRUE, dp |-> (e.hosts * e.devs) \div n, mp |-> n,
          local_dp |-> IF n <= e.devs THEN e.devs \div n ELSE 1]

\* get_host_batch_size: this host's share of the global batch.
get_host_batch_size(global_batch_size, m) ==
    (global_batch_size \div m.dp) * m.local_dp

Envs == [hosts : HostCounts, devs : LocalDeviceCounts]

\* ------------------------------------------------------------- Deployer
process_batch_size_wrong(e, m, per_device_batch_size) ==
    IF ~m.set
    THEN LET batch_size == per_device_batch_size * e.devs
         IN <<batch_size, batch_size + e.hosts>>
    ELSE LET global_batch_size == per_device_batch_size * m.dp
         IN <<get_host_batch_size(global_batch_size, m), global_batch_size>>

process_batch_size(e, m, per_device_batch_size) ==
    IF ~m.set
    THEN LET batch_size == per_device_batch_size * e.devs
         IN <<batch_size, batch_size * e.hosts>>
    ELSE LET global_batch_size == per_device_batch_size * m.dp
         IN <<get_host_batch_size(global_batch_size, m), global_batch_size>>

\* get_host_examples pads the examples (wrapping around) to a multiple of the
\* global batch size; get_data_batches cuts this host's share into batches of
\* the local batch size.  What is left here is the number of batches.
NumBatches(n_examples, global_batch_size) ==
    CeilDiv(n_examples, global_batch_size)

\* The replicas a step runs on: every device without a mesh (the pmap axis
\* 'batch'), one logical program with a mesh.
Replicas(e, m) == IF ~m.set THEN 1..(e.hosts * e.devs) ELSE {1}

\* do_shard = (self.mesh is None): a batch gets a leading device axis.
do_shard(m) == ~m.set

replicate(e, m, x) == [r \in Replicas(e, m) |-> x]

unreplicate(x) == x[1]

process_to_run_model(e, m, x) == IF ~m.set THEN replicate(e, m, x) ELSE x

process_to_deliver_never_unreplicates(m, x) == x

process_to_deliver(m, x) == IF ~m.set THEN unreplicate(x) ELSE x

\* process_batch_preds merges the device axis into the batch axis: preds is a
\* sequence (devices) of sequences (examples) without a mesh.
RECURSIVE Flatten(_)
Flatten(ss) == IF ss = <<>> THEN <<>> ELSE Head(ss) \o Flatten(Tail(ss))

process_batch_preds(m, batch_preds) ==
    IF ~m.set THEN Flatten(batch_preds) ELSE batch_preds

\* gen_rng: self._rng, new_rng = jax.random.split(self._rng); return new_rng
gen_rng_returns_parent(k) == [rng |-> split(k)[1], new_rng |-> split(k)[1]]

gen_rng_keeps_state(k) == [rng |-> k, new_rng |-> split(k)[2]]

gen_rng(k) == [rng |-> split(k)[1], new_rng |-> split(k)[2]]

\* The Deployer's state after a gen_rng() call by Deployer d.
GenRngEffect(d) ==
    LET g == gen_rng(rng[d]) IN
    /\ Len(keys[d]) < MaxKeys
    /\ rng' = [rng EXCEPT ![d] = g.rng]
    /\ keys' = [keys EXCEPT ![d] = Append(@, g.new_rng)]
    /\ parents' = [parents EXCEPT ![d] = Append(@, g.rng)]

\* ------------------------------------------------------------- step functions
\* The user's loss function and optimizer: a squared error, its gradient, and
\* an update that accumulates the gradient in the optimizer state.
LossFn(p, b) == (p - b) * (p - b)

GradFn(p, b) == p - b

lr_schedule_fn(step) == step % 2

\* TrainState.create(...): step = 0, opt_state = tx.init(params).
TrainStateCreate(p) == [params |-> p, opt_state |-> 0, step |-> 0]

\* state.apply_gradients(grads=grad): a new state, one step further.
apply_gradients_same_step(s, g) ==
    [params |-> (s.params - g) % PMod,
     opt_state |-> (s.opt_state + g) % PMod,
     step |-> s.step]

apply_gradients(s, g) ==
    [params |-> (s.params - g) % PMod,
     opt_state |-> (s.opt_state + g) % PMod,
     step |-> s.step + 1]

\* jax.lax.pmean(x, 'batch'): every replica gets the mean over the replicas.
psum(x) == [r \in DOMAIN x |-> SumOver(x, DOMAIN x)]

pmean(x) == [r \in DOMAIN x |-> SumOver(x, DOMAIN x) \div Cardinality(DOMAIN x)]

\* default_train_step, run on every replica r of state st with its share b[r]
\* of the batch: <<new_state, metrics>>.
default_train_step_no_grad_pmean(st, b, under_pmap) ==
    LET R == DOMAIN st
        loss == [r \in R |-> LossFn(st[r].params, b[r])]
        grad == [r \in R |-> GradFn(st[r].params, b[r])]
        new_state == [r \in R |-> apply_gradients(st[r], grad[r])]
        m0 == [r \in R |-> [loss |-> loss[r], step |-> st[r].step,
                            lr |-> lr_schedule_fn(st[r].step)]]
        metrics == IF under_pmap
                   THEN [r \in R |->
                           [loss |-> pmean([q \in R |-> m0[q].loss])[r],
                            step |-> pmean([q \in R |-> m0[q].step])[r],
                            lr |-> pmean([q \in R |-> m0[q].lr])[r]]]
                   ELSE m0
    IN <<new_state, metrics>>

default_train_step_psum_metrics(st, b, under_pmap) ==
    LET R == DOMAIN st
        loss == [r \in R |-> LossFn(st[r].params, b[r])]
        grad0 == [r \in R |-> GradFn(st[r].params, b[r])]
        grad == IF under_pmap THEN pmean(grad0) ELSE grad0
        new_state == [r \in R |-> apply_gradients(st[r], grad[r])]
        m0 == [r \in R |-> [loss |-> loss[r], step |-> st[r].step,
                            lr |-> lr_schedule_fn(st[r].step)]]
        metrics == IF under_pmap
                   THEN [r \in R |->
                           [loss |-> psum([q \in R |-> m0[q].loss])[r],
                            step |-> psum([q \in R |-> m0[q].step])[r],
                            lr |-> psum([q \in R |-> m0[q].lr])[r]]]
                   ELSE m0
    IN <<new_state, metrics>>

default_train_step(st, b, under_pmap) ==
    LET R == DOMAIN st
        loss == [r \in R |-> LossFn(st[r].params, b[r])]
        grad0 == [r \in R |-> GradFn(st[r].params, b[r])]
        grad == IF under_pmap THEN pmean(grad0) ELSE grad0
        new_state == [r \in R |-> apply_gradients(st[r], grad[r])]
        m0 == [r \in R |-> [loss |-> loss[r], step |-> st[r].step,
                            lr |-> lr_schedule_fn(st[r].step)]]
        metrics == IF under_pmap
                   THEN [r \in R |->
                           [loss |-> pmean([q \in R |-> m0[q].loss])[r],
                            step |-> pmean([q \in R |-> m0[q].step])[r],
                            lr |-> pmean([q \in R |-> m0[q].lr])[r]]]
                   ELSE m0
    IN <<new_state, metrics>>

\* default_eval_step: the metrics only.
default_eval_step(st, b, under_pmap) ==
    LET R == DOMAIN st
        m0 == [r \in R |-> [loss |-> LossFn(st[r].params, b[r])]]
    IN IF under_pmap
       THEN [r \in R |-> [loss |-> pmean([q \in R |-> m0[q].loss])[r]]]
       ELSE m0

\* ------------------------------------------------------------- Trainer
NotCompiled == [kind |-> "None", fn |-> "None", under_pmap |-> FALSE,
                donate |-> FALSE, data_spec |-> 0]

\* The shape of a batch's fields: the per-device batch size the batch was
\* made with and the number of dimensions of its fields.
Ranks == {1, 2}
PlainRanks == {2}
NoShape == [per_device_batch_size |-> 0, rank |-> 0]
Shape(per_device_batch_size, rank) ==
    [per_device_batch_size |-> per_device_batch_size, rank |-> rank]

\* data_spec: P('dp', None, ...), one entry per dimension of the dummy
\* batch's fields; without a mesh the dummy batch is deleted unread.
data_spec_of(dummy_batch) == dummy_batch.rank

\* setup_running_step: <<self._p_train_step, self._p_eval_step>>.  The pjit of
\* the train step donates argument 1, the state.
setup_running_step_pmap_donates(m, dummy_batch) ==
    <<[kind |-> IF ~m.set THEN "pmap" ELSE "pjit", fn |-> "train",
       under_pmap |-> ~m.set, donate |-> TRUE,
       data_spec |-> IF ~m.set THEN 0 ELSE data_spec_of(dummy_batch)],
      [kind |-> IF ~m.set THEN "pmap" ELSE "pjit", fn |-> "eval",
       under_pmap |-> ~m.set, donate |-> FALSE,
       data_spec |-> IF ~m.set THEN 0 ELSE data_spec_of(dummy_batch)]>>

setup_running_step_eval_donates(m, dummy_batch) ==
    <<[kind |-> IF ~m.set THEN "pmap" ELSE "pjit", fn |-> "train",
       under_pmap |-> ~m.set, donate |-> m.set,
       data_spec |-> IF ~m.set THEN 0 ELSE data_spec_of(dummy_batch)],
      [kind |-> IF ~m.set THEN "pmap" ELSE "pjit", fn |-> "eval",
       under_pmap |-> ~m.set, donate |-> TRUE,
       data_spec |-> IF ~m.set THEN 0 ELSE data_spec_of(dummy_batch)]>>

setup_running_step_train_only(m, dummy_batch) ==
    <<[kind |-> IF ~m.set THEN "pmap" ELSE "pjit", fn |-> "train",
       under_pmap |-> ~m.set, donate |-> m.set,
       data_spec |-> IF ~m.set THEN 0 ELSE data_spec_of(dummy_batch)],
      NotCompiled>>

setup_running_step_wrong_mode(m, dummy_batch) ==
    <<[kind |-> "pmap", fn |-> "train", under_pmap |-> TRUE,
       donate |-> FALSE, data_spec |-> 0],
      [kind |-> "pmap", fn |-> "eval", under_pmap |-> TRUE,
       donate |-> FALSE, data_spec |-> 0]>>

setup_running_step(m, dummy_batch) ==
    IF ~m.set
    THEN <<[kind |-> "pmap", fn |-> "train", under_pmap |-> TRUE,
            donate |-> FALSE, data_spec |-> 0],
           [kind |-> "pmap", fn |-> "eval", under_pmap |-> TRUE,
            donate |-> FALSE, data_spec |-> 0]>>
    ELSE <<[kind |-> "pjit", fn |-> "train", under_pmap |-> FALSE,
            donate |-> TRUE, data_spec |-> data_spec_of(dummy_batch)],
           [kind |-> "pjit", fn |-> "eval", under_pmap |-> FALSE,
            donate |-> FALSE, data_spec |-> data_spec_of(dummy_batch)]>>

\* Whether a compiled step takes a batch.  A step is compiled anew for every
\* new shape of its arguments, so no batch size is refused; pjit refuses an
\* argument with fewer dimensions than its partition spec has entries.
accepts_never_refuses(step_fn, b) == TRUE

accepts(step_fn, b) ==
    step_fn.kind = "pjit" => b.rank >= step_fn.data_spec

\* Deployer.run_model_step(step_fn, input_args): the compiled step applied to
\* its arguments, as a parallel map or inside the mesh's context.
run_model_step(step_fn, st, b) ==
    IF step_fn.fn = "train"
    THEN default_train_step(st, b, step_fn.under_pmap)
    ELSE default_eval_step(st, b, step_fn.under_pmap)

\* self._deployer
T == 1
TMesh == mesh[T]
State == heap[stateRef].val

\* create_train_state: the replicated (no mesh) or sharded (mesh) state.
create_train_state(e, m, p) ==
    IF ~m.set
    THEN replicate(e, m, TrainStateCreate(p))
    ELSE [r \in Replicas(e, m) |->
            [params |-> p, opt_state |-> 0, step |-> 0]]

\* Trainer.params: process_to_deliver(self._state.params).
ParamsOf(st) == [r \in DOMAIN st |-> st[r].params]

params_of_state(m, st) == process_to_deliver(m, ParamsOf(st))

\* Trainer.step
step_of_state(m, st) == process_to_deliver(m, [r \in DOMAIN st |-> st[r].step])


NoSnap == [taken |-> FALSE, ref |-> 0, val |-> 0]
NoFit == [active |-> FALSE, n_epochs |-> 0, epoch_idx |-> 0, n_train |-> 0,
          per_device_batch_size |-> 0, rank |-> 0, eval_given |-> FALSE,
          n_eval |-> 0, eval_rank |-> 0,
          eval_per_device_batch_size |-> 0, eval_loss |-> FALSE,
          eval_predictor |-> FALSE, eval_metric_fn |-> FALSE]
NoMetrics == [kind |-> "none", m |-> 0]
ExampleCounts == {0, 1, MaxExamples}
Contents == {"json", "pickle_only", "neither"}

Keep(h, refs) == [i \in refs |-> h[i]]

Refs(ref, s) == {ref} \cup (IF s.taken THEN {s.ref} ELSE {})

\* ------------------------------------------------------------- Init
NoRet == [d |-> 0, op |-> "none", arg |-> 0, val |-> 0]

\* Deployer.__init__, for each Deployer: the key of its seed and its mesh.
InitDeployer ==
    /\ seed \in [Deployers -> Seeds]
    /\ \E n \in [Deployers -> ShardCounts] :
          /\ \A d \in Deployers : MeshOk(env, n[d])
          /\ mesh = [d \in Deployers |-> get_mesh(env, n[d])]
    /\ rng = [d \in Deployers |-> PRNGKey(seed[d])]
    /\ keys = [d \in Deployers |-> <<>>]
    /\ parents = [d \in Deployers |-> <<PRNGKey(seed[d])>>]
    /\ ret = NoRet

\* Trainer.__init__: nothing compiled, the state created from the parameters.
InitTrainer ==
    /\ \E p \in 0..(PMod - 1) :
          heap = [i \in {0} |->
                    [val |-> create_train_state(env, mesh[T], p), live |-> TRUE]]
    /\ stateRef = 0
    /\ snap = NoSnap
    /\ p_train_step = NotCompiled
    /\ p_eval_step = NotCompiled
    /\ pc = "idle"
    /\ caller = "user"
    /\ todo = 0
    /\ last_metrics = NoMetrics
    /\ perReplica = <<>>
    /\ losses = <<>>
    /\ fit = NoFit
    /\ trace = <<>>
    /\ nTrained = 0
    /\ n_setup = 0
    /\ setup_batch = NoShape
    /\ batch_shape = NoShape

\* One Deployer with its Trainer on at most two devices; the second Deployer
\* is a copy that is never used.
TrainerEnvs == {e \in Envs : e.hosts * e.devs <= 2}

Init ==
    /\ env \in TrainerEnvs
    /\ InitDeployer
    /\ seed[2] = seed[1]
    /\ mesh[2] = mesh[1]
    /\ InitTrainer

\* ------------------------------------------------------------- Trainer.train
\* if self._p_train_step is None: self.setup_running_step(dummy_batch=batch)
NeedsSetup_always == TRUE

NeedsSetup == p_train_step.kind = "None"

Compiled == IF NeedsSetup THEN setup_running_step(TMesh, batch_shape)
            ELSE <<p_train_step, p_eval_step>>

\* if self._p_eval_step is None: self.setup_running_step(dummy_batch=batch)
NeedsSetupForEval == p_eval_step.kind = "None"

CompiledForEval == IF NeedsSetupForEval
                   THEN setup_running_step(TMesh, batch_shape)
                   ELSE <<p_train_step, p_eval_step>>

\* train up to its loop: the shuffle key and the batches.
StartTrain(n, per_device_batch_size, rank, who) ==
    LET bs == process_batch_size(env, TMesh, per_device_batch_size)
        nb == NumBatches(n, bs[2])
    IN /\ nTrained + nb <= MaxSteps
       /\ GenRngEffect(T)
       /\ todo' = nb
       /\ batch_shape' = IF nb = 0 THEN NoShape
                         ELSE Shape(per_device_batch_size, rank)
       /\ pc' = "train"
       /\ caller' = who

TrainCallWith(Rs) ==
    /\ pc = "idle"
    /\ \E n \in ExampleCounts, b \in 1..MaxPerDevice, rank \in Rs :
          StartTrain(n, b, rank, "user")
    /\ UNCHANGED <<env, seed, mesh, ret, heap, stateRef, snap, p_train_step,
                   p_eval_step, last_metrics, perReplica, losses, fit, trace,
                   nTrained, n_setup, setup_batch>>

TrainCall == TrainCallWith(PlainRanks)

TrainCallAny == TrainCallWith(Ranks)

\* The heap after a step that turned the state in buffer ref into the state
\* new_state: a donated argument's buffer is deleted where the backend
\* honours the donation; buffers nobody refers to are freed.
HeapAfterStep(h, ref, s, new_state, donate, honoured) ==
    LET new == ref + 1
        all == [i \in DOMAIN h \cup {new} |->
                  IF i = new THEN [val |-> new_state, live |-> TRUE]
                  ELSE IF i = ref
                  THEN [h[i] EXCEPT !.live = @ /\ ~(donate /\ honoured)]
                  ELSE h[i]]
    IN Keep(all, Refs(new, s))

\* The heap after a step that only read the state in buffer ref.
HeapAfterEval(h, ref, donate, honoured) ==
    [h EXCEPT ![ref].live = @ /\ ~(donate /\ honoured)]

\* The compiled step refuses the batch: its error leaves the loop and the
\* method, and fit when fit called it.
StepRaises ==
    /\ pc' = IF caller = "fit" THEN "fit_raised" ELSE "raised"
    /\ todo' = 0
    /\ batch_shape' = NoShape
    /\ last_metrics' = NoMetrics
    /\ perReplica' = <<>>
    /\ UNCHANGED <<heap, stateRef, nTrained>>

\* One iteration of train's loop.
TrainLoop ==
    /\ pc = "train"
    /\ todo > 0
    /\ p_train_step' = Compiled[1]
    /\ p_eval_step' = Compiled[2]
    /\ n_setup' = n_setup + (IF NeedsSetup THEN 1 ELSE 0)
    /\ setup_batch' = IF NeedsSetup THEN batch_shape ELSE setup_batch
    /\ GenRngEffect(T)
    /\ IF accepts(Compiled[1], batch_shape)
       THEN /\ \E b \in [Replicas(env, TMesh) -> Data] :
               \E honoured \in (IF Compiled[1].donate THEN BOOLEAN
                                 ELSE {FALSE}) :
                  LET out == run_model_step(Compiled[1], State, b)
                  IN /\ stateRef' = stateRef + 1
                     /\ heap' = HeapAfterStep(heap, stateRef, snap, out[1],
                                              Compiled[1].donate, honoured)
                     /\ last_metrics' =
                           [kind |-> "train",
                            m |-> process_to_deliver(TMesh, out[2])]
                     /\ perReplica' =
                           [r \in DOMAIN State |->
                               LossFn(State[r].params, b[r])]
            /\ todo' = todo - 1
            /\ nTrained' = nTrained + 1
            /\ UNCHANGED <<pc, batch_shape>>
       ELSE StepRaises
    /\ UNCHANGED <<env, seed, mesh, ret, snap, caller, losses, fit, trace>>

\* train returns: its batch and metrics are gone.
TrainDone ==
    /\ pc = "train"
    /\ todo = 0
    /\ pc' = IF caller = "fit" THEN "fit_eval" ELSE "idle"
    /\ last_metrics' = NoMetrics
    /\ perReplica' = <<>>
    /\ batch_shape' = NoShape
    /\ UNCHANGED <<dvars, heap, stateRef, snap, p_train_step, p_eval_step,
                   caller, todo, losses, fit, trace, nTrained, n_setup,
                   setup_batch>>

\* ------------------------------------------------------------- Trainer.eval_loss
StartEval(n, per_device_batch_size, rank, who) ==
    LET bs == process_batch_size(env, TMesh, per_device_batch_size)
        nb == NumBatches(n, bs[2])
    IN /\ todo' = nb
       /\ batch_shape' = IF nb = 0 THEN NoShape
                         ELSE Shape(per_device_batch_size, rank)
       /\ losses' = <<>>
       /\ pc' = "eval"
       /\ caller' = who

EvalLossCallWith(Rs) ==
    /\ pc = "idle"
    /\ \E n \in ExampleCounts, b \in 1..MaxPerDevice, rank \in Rs :
          StartEval(n, b, rank, "user")
    /\ UNCHANGED <<dvars, heap, stateRef, snap, p_train_step, p_eval_step,
                   last_metrics, perReplica, fit, trace, nTrained, n_setup,
                   setup_batch>>

EvalLossCall == EvalLossCallWith(PlainRanks)

EvalLossCallAny == EvalLossCallWith(Ranks)

\* One iteration of eval_loss's loop.
EvalLoop ==
    /\ pc = "eval"
    /\ todo > 0
    /\ p_train_step' = CompiledForEval[1]
    /\ p_eval_step' = CompiledForEval[2]
    /\ n_setup' = n_setup + (IF NeedsSetupForEval THEN 1 ELSE 0)
    /\ setup_batch' = IF NeedsSetupForEval THEN batch_shape ELSE setup_batch
    /\ IF accepts(CompiledForEval[2], batch_shape)
       THEN /\ \E b \in [Replicas(env, TMesh) -> Data] :
               \E honoured \in (IF CompiledForEval[2].donate THEN BOOLEAN
                                 ELSE {FALSE}) :
                  LET out == process_to_deliver(
                                TMesh,
                                run_model_step(CompiledForEval[2], State, b))
                  IN /\ heap' = HeapAfterEval(heap, stateRef,
                                              CompiledForEval[2].donate,
                                              honoured)
                     /\ last_metrics' = [kind |-> "eval", m |-> out]
                     /\ losses' = Append(losses, IF TMesh.set
                                                 THEN out[1].loss
                                                 ELSE out.loss)
                     /\ perReplica' =
                           [r \in DOMAIN State |->
                               LossFn(State[r].params, b[r])]
            /\ todo' = todo - 1
            /\ UNCHANGED <<stateRef, pc, batch_shape, nTrained>>
       ELSE /\ StepRaises
            /\ losses' = <<>>
    /\ UNCHANGED <<dvars, snap, caller, fit, trace>>

\* eval_loss returns the mean of its losses.
EvalDone ==
    /\ pc = "eval"
    /\ todo = 0
    /\ losses' = <<>>
    /\ last_metrics' = NoMetrics
    /\ perReplica' = <<>>
    /\ pc' = IF caller = "fit" THEN "fit_pred" ELSE "idle"
    /\ batch_shape' = NoShape
    /\ UNCHANGED <<dvars, heap, stateRef, snap, p_train_step, p_eval_step,
                   caller, todo, fit, trace, nTrained, n_setup, setup_batch>>

\* The error of a refused batch has reached the caller of train or eval_loss.
Raised ==
    /\ pc = "raised"
    /\ pc' = "idle"
    /\ UNCHANGED <<dvars, heap, stateRef, snap, p_train_step, p_eval_step,
                   caller, todo, last_metrics, perReplica, losses, fit, trace,
                   nTrained, n_setup, setup_batch, batch_shape>>

\* ------------------------------------------------------------- Trainer.params
\* A caller reads Trainer.params and keeps what it got; what it held before
\* is dropped.
ReadParams ==
    /\ pc = "idle"
    /\ heap[stateRef].live
    /\ snap' = [taken |-> TRUE, ref |-> stateRef,
                val |-> params_of_state(TMesh, State)]
    /\ heap' = Keep(heap, {stateRef})
    /\ UNCHANGED <<dvars, stateRef, p_train_step, p_eval_step, pc, caller, todo,
                   last_metrics, perReplica, losses, fit, trace, nTrained,
                   n_setup, setup_batch, batch_shape>>

\* ------------------------------------------------------------- Trainer.fit
Ev(what) == [ev |-> what, epoch |-> fit.epoch_idx]

Events(names) == [k \in 1..Len(names) |-> Ev(names[k])]

\* The arguments of a fit call; 0 stands for eval_per_device_batch_size=None.
\* Arguments fit never reads (those of the evaluation when eval_examples is
\* None, eval_metric_fn without eval_predictor) vary only where they are read.
FitArgsOver(Rs) ==
    {a \in [active : {TRUE}, n_epochs : 0..MaxEpochs, epoch_idx : {0},
            n_train : {0, 1}, per_device_batch_size : {1}, rank : Rs,
            eval_given : BOOLEAN, n_eval : {0, 1}, eval_rank : Rs,
            eval_per_device_batch_size : {0, MaxPerDevice},
            eval_loss : BOOLEAN, eval_predictor : BOOLEAN,
            eval_metric_fn : BOOLEAN] :
        /\ a.eval_given <=> a.n_eval = 1
        /\ ~a.eval_given => a.eval_per_device_batch_size = 0
        /\ ~a.eval_given => a.eval_rank = a.rank
        /\ a.eval_metric_fn => a.eval_predictor}

AllFitArgs == FitArgsOver(PlainRanks)

\* The fit calls of the Trainer's general run: the defaults, with and without
\* evaluation examples and a predictor.
PlainFitArgs ==
    {a \in AllFitArgs :
        /\ a.n_epochs >= 1
        /\ a.n_train = 1
        /\ a.eval_loss
        /\ a.eval_per_device_batch_size = 0
        /\ a.eval_rank = a.rank
        /\ a.eval_predictor = a.eval_given
        /\ ~a.eval_metric_fn}

FitCallWith(Args) ==
    /\ pc = "idle"
    /\ fit' \in Args
    /\ trace' = <<>>
    /\ pc' = "fit_epoch"
    /\ UNCHANGED <<dvars, heap, stateRef, snap, p_train_step, p_eval_step,
                   caller, todo, last_metrics, perReplica, losses, nTrained,
                   n_setup, setup_batch, batch_shape>>

FitCall == FitCallWith(PlainFitArgs)

FitCallAny == FitCallWith(AllFitArgs)

\* The fit calls that evaluate the loss on examples of their own shape, with
\* their own or the training's batch size.
ShapeFitArgs ==
    {a \in FitArgsOver(Ranks) :
        /\ a.n_epochs = 1
        /\ a.n_train = 1
        /\ a.eval_given
        /\ a.eval_loss
        /\ ~a.eval_predictor}

FitCallShapes == FitCallWith(ShapeFitArgs)

\* for epoch_idx in range(n_epochs): self.train(...); after the last epoch
\* fit returns.
FitEpoch ==
    /\ pc = "fit_epoch"
    /\ IF fit.epoch_idx < fit.n_epochs
       THEN /\ StartTrain(fit.n_train, fit.per_device_batch_size, fit.rank,
                          "fit")
            /\ trace' = Append(trace, Ev("train"))
            /\ fit' = fit
       ELSE /\ pc' = "idle"
            /\ fit' = NoFit
            /\ trace' = <<>>
            /\ UNCHANGED <<rng, keys, parents, todo, caller, batch_shape>>
    /\ UNCHANGED <<env, seed, mesh, ret, heap, stateRef, snap, p_train_step,
                   p_eval_step, last_metrics, perReplica, losses, nTrained,
                   n_setup, setup_batch>>

\* The eval batch size fit uses: eval_per_device_batch_size, or
\* per_device_batch_size when that is None.
EvalBatchSize(f) ==
    IF f.eval_per_device_batch_size = 0 THEN f.per_device_batch_size
    ELSE f.eval_per_device_batch_size

\* The end of an epoch's iteration.
NextEpoch(f) ==
    [f EXCEPT !.epoch_idx = @ + 1,
              !.eval_per_device_batch_size =
                  IF f.eval_given THEN EvalBatchSize(f) ELSE @]

\* What fit does after an epoch's training.
fit_after_train_ignores_none(f) ==
    IF f.eval_loss THEN "eval_loss" ELSE "predict"

fit_after_train(f) ==
    IF ~f.eval_given THEN "no_eval"
    ELSE IF f.eval_loss THEN "eval_loss" ELSE "predict"

FitEval ==
    /\ pc = "fit_eval"
    /\ IF fit_after_train(fit) = "no_eval"
       THEN /\ pc' = "fit_epoch"
            /\ fit' = NextEpoch(fit)
            /\ trace' = Append(trace, Ev("no_eval"))
            /\ UNCHANGED <<todo, losses, caller, batch_shape>>
       ELSE IF fit_after_train(fit) = "eval_loss"
       THEN /\ StartEval(fit.n_eval, EvalBatchSize(fit), fit.eval_rank, "fit")
            /\ trace' = Append(trace, Ev("eval_loss"))
            /\ fit' = fit
       ELSE /\ pc' = "fit_pred"
            /\ UNCHANGED <<todo, losses, caller, trace, fit, batch_shape>>
    /\ UNCHANGED <<dvars, heap, stateRef, snap, p_train_step, p_eval_step,
                   last_metrics, perReplica, nTrained, n_setup, setup_batch>>

\* The try / except around json.dump, for eval_results of the given content:
\* <<what happened, whether an exception leaves fit>>.  open(.., 'w') creates
\* the JSON file before json.dump can fail; pickle.dump fails on content
\* that cannot be pickled either.
dump_results_no_fallback(content) ==
    IF content = "json" THEN <<<<"json">>, FALSE>>
    ELSE <<<<"json_failed">>, TRUE>>

dump_results_always_pickles(content) ==
    IF content = "json" THEN <<<<"json", "pkl">>, FALSE>>
    ELSE IF content = "pickle_only" THEN <<<<"json_failed", "pkl">>, FALSE>>
    ELSE <<<<"json_failed", "pkl_failed">>, TRUE>>

dump_results(content) ==
    IF content = "json" THEN <<<<"json">>, FALSE>>
    ELSE IF content = "pickle_only" THEN <<<<"json_failed", "pkl">>, FALSE>>
    ELSE <<<<"json_failed", "pkl_failed">>, TRUE>>

\* The predictor, the output file, the metric function and the log line of an
\* epoch with eval_examples.
FitPredict ==
    /\ pc = "fit_pred"
    /\ IF fit.eval_predictor
       THEN \E content \in Contents :
               LET d == dump_results(content) IN
               IF d[2]
               THEN /\ trace' = trace \o Events(<<"predict">> \o d[1])
                    /\ pc' = "fit_raised"
                    /\ fit' = fit
               ELSE /\ trace' = trace \o Events(
                          <<"predict">> \o d[1] \o
                          (IF fit.eval_metric_fn THEN <<"metric">> ELSE <<>>)
                          \o <<"log">>)
                    /\ pc' = "fit_epoch"
                    /\ fit' = NextEpoch(fit)
       ELSE /\ trace' = Append(trace, Ev("log"))
            /\ pc' = "fit_epoch"
            /\ fit' = NextEpoch(fit)
    /\ UNCHANGED <<dvars, heap, stateRef, snap, p_train_step, p_eval_step,
                   caller, todo, last_metrics, perReplica, losses, nTrained,
                   n_setup, setup_batch, batch_shape>>

\* An exception leaves fit.
FitRaise ==
    /\ pc = "fit_raised"
    /\ pc' = "idle"
    /\ fit' = NoFit
    /\ trace' = <<>>
    /\ UNCHANGED <<dvars, heap, stateRef, snap, p_train_step, p_eval_step,
                   caller, todo, last_metrics, perReplica, losses, nTrained,
                   n_setup, setup_batch, batch_shape>>

\* ------------------------------------------------------------- the Trainer's run
Next ==
    \/ TrainCall
    \/ TrainLoop
    \/ TrainDone
    \/ EvalLossCall
    \/ EvalLoop
    \/ EvalDone
    \/ ReadParams
    \/ FitCall
    \/ FitEpoch
    \/ FitEval
    \/ FitPredict
    \/ FitRaise

Spec == Init /\ [][Next]_vars

\* ------------------------------------------------------------- fit calls only
\* A Trainer on one device that is only ever driven by fit, with every
\* combination of fit's arguments.
InitFit ==
    /\ Init
    /\ env = [hosts |-> 1, devs |-> 1]
    /\ seed[T] = 0

NextFit ==
    \/ FitCallAny
    \/ FitEpoch
    \/ TrainLoop
    \/ TrainDone
    \/ FitEval
    \/ EvalLoop
    \/ EvalDone
    \/ FitPredict
    \/ FitRaise

SpecFit == InitFit /\ [][NextFit]_vars

\* ------------------------------------------------------------- batch shapes
\* A Trainer with fixed seed and initial parameters whose train, eval_loss
\* and fit calls get examples of every shape.
InitShapes ==
    /\ Init
    /\ seed[T] = 0
    /\ State[1].params = 0

NextShapes ==
    \/ TrainCallAny
    \/ TrainLoop
    \/ TrainDone
    \/ EvalLossCallAny
    \/ EvalLoop
    \/ EvalDone
    \/ Raised
    \/ FitCallShapes
    \/ FitEpoch
    \/ FitEval
    \/ FitPredict
    \/ FitRaise

SpecShapes == InitShapes /\ [][NextShapes]_vars

\* ------------------------------------------------------------- Deployer calls
\* Two Deployers of one process, called directly.  ret is the last call's
\* Deployer, method, argument and result.
Returned(d, op, arg, val) ==
    ret' = [d |-> d, op |-> op, arg |-> arg, val |-> val]

\* get_multistep_adamw_optimizer: the schedule's total number of steps.
get_multistep_adamw_optimizer(train_size, global_batch_size, n_epochs, accumulate_grad_batches) ==
    [total_steps |-> (CeilDiv(train_size, global_batch_size) * n_epochs)
                        \div accumulate_grad_batches]

get_adamw_optimizer(e, m, train_size, per_device_batch_size, n_epochs, accumulate_grad_batches) ==
    get_multistep_adamw_optimizer(
        train_size, process_batch_size(e, m, per_device_batch_size)[2],
        n_epochs, accumulate_grad_batches)

\* get_model_input_batches: the batches, and self._rng as the call leaves it
\* (the shuffle key is an argument; the Deployer's own key is not read).
get_model_input_batches_splits(e, m, k, n_examples, per_device_batch_size, shuffle) ==
    LET bs == process_batch_size(e, m, per_device_batch_size)
    IN [batches |-> [n |-> NumBatches(n_examples, bs[2]), batch_size |-> bs[1],
                     do_shard |-> do_shard(m)],
        rng |-> IF shuffle THEN split(k)[1] ELSE k]

get_model_input_batches(e, m, k, n_examples, per_device_batch_size, shuffle) ==
    LET bs == process_batch_size(e, m, per_device_batch_size)
    IN [batches |-> [n |-> NumBatches(n_examples, bs[2]), batch_size |-> bs[1],
                     do_shard |-> do_shard(m)],
        rng |-> k]

DGenRng(d) ==
    /\ Len(keys[d]) < MaxReplayKeys
    /\ GenRngEffect(d)
    /\ Returned(d, "gen_rng", 0, gen_rng(rng[d]).new_rng)
    /\ UNCHANGED <<env, seed, mesh, tvars>>

DProcessBatchSize(d) ==
    /\ \E b \in 1..MaxPerDevice :
          Returned(d, "process_batch_size", b,
                   process_batch_size(env, mesh[d], b))
    /\ UNCHANGED <<env, seed, mesh, rng, keys, parents, tvars>>

DGetModelInputBatches(d) ==
    /\ \E n \in {MaxExamples}, b \in 1..MaxPerDevice, shuffle \in BOOLEAN :
          LET r == get_model_input_batches(env, mesh[d], rng[d], n, b, shuffle)
          IN /\ Returned(d, "get_model_input_batches", <<n, b, shuffle>>,
                         r.batches)
             /\ rng' = [rng EXCEPT ![d] = r.rng]
    /\ UNCHANGED <<env, seed, mesh, keys, parents, tvars>>

DProcessToRunModel(d) ==
    /\ \E x \in Data :
          Returned(d, "process_to_run_model", x,
                   process_to_run_model(env, mesh[d], x))
    /\ UNCHANGED <<env, seed, mesh, rng, keys, parents, tvars>>

DProcessToDeliver(d) ==
    /\ \E v \in Data :
          LET x == [r \in Replicas(env, mesh[d]) |-> (r + v) % 2]
          IN Returned(d, "process_to_deliver", x,
                      process_to_deliver(mesh[d], x))
    /\ UNCHANGED <<env, seed, mesh, rng, keys, parents, tvars>>

DProcessBatchPreds(d) ==
    /\ \E x \in [1..env.devs -> [1..1 -> Data]] :
          Returned(d, "process_batch_preds", x,
                   process_batch_preds(mesh[d], x))
    /\ UNCHANGED <<env, seed, mesh, rng, keys, parents, tvars>>

DGetAdamwOptimizer(d) ==
    /\ \E n \in {MaxExamples}, b \in 1..MaxPerDevice, ne \in {MaxEpochs},
          acc \in 1..2 :
          Returned(d, "get_adamw_optimizer", <<n, b, ne, acc>>,
                   get_adamw_optimizer(env, mesh[d], n, b, ne, acc))
    /\ UNCHANGED <<env, seed, mesh, rng, keys, parents, tvars>>

InitReplay ==
    /\ env \in Envs
    /\ InitDeployer
    /\ seed[1] = 0
    /\ InitTrainer
    /\ State[1].params = 0

NextReplay ==
    \E d \in Deployers :
        \/ DGenRng(d)
        \/ DProcessBatchSize(d)
        \/ DGetModelInputBatches(d)
        \/ DProcessToRunModel(d)
        \/ DProcessToDeliver(d)
        \/ DProcessBatchPreds(d)
        \/ DGetAdamwOptimizer(d)

SpecReplay == InitReplay /\ [][NextReplay]_vars

\* ------------------------------------------------------------- both modes
\* A Trainer with fixed seed and initial parameters, with or without a mesh,
\* whose Deployer's methods are also called directly.
NextMode ==
    \/ TrainCall
    \/ TrainLoop
    \/ TrainDone
    \/ EvalLossCall
    \/ EvalLoop
    \/ EvalDone
    \/ DGetModelInputBatches(T)
    \/ DProcessToRunModel(T)
    \/ DProcessToDeliver(T)

SpecMode == InitShapes /\ [][NextMode]_vars

\* ============================================================= properties

\* C1: over any sequence of gen_rng() calls of one Deployer (those of
\* Trainer.train for shuffling and for each train step included), no two calls
\* return the same key, and no returned key equals a value the Deployer's own
\* _rng holds or has held: every consumer gets a split child, never the parent.
C1_FreshKeys ==
    \A d \in Deployers :
        /\ \A i, j \in 1..Len(keys[d]) : i # j => keys[d][i] # keys[d][j]
        /\ \A i \in 1..Len(keys[d]) :
              /\ keys[d][i] # rng[d]
              /\ \A j \in 1..Len(parents[d]) : keys[d][i] # parents[d][j]

\* A train call's shuffle key and the keys of two train steps were drawn.
C1_Witness ==
    /\ Len(keys[T]) >= 3
    /\ nTrained >= 2
    /\ pc = "train"

\* C2: two Deployers built with the same jax_seed return the same key on their
\* n-th gen_rng() call, whatever other Deployer methods were called in between
\* and whatever their meshes.
C2_Replay ==
    seed[1] = seed[2] =>
        \A n \in 1..Len(keys[1]) :
            n <= Len(keys[2]) => keys[1][n] = keys[2][n]

\* Both Deployers, of different modes, drew all their keys, and the last call
\* was a shuffling get_model_input_batches.
C2_Witness ==
    /\ seed[1] = seed[2]
    /\ mesh[1] # mesh[2]
    /\ Len(keys[1]) = MaxReplayKeys
    /\ Len(keys[2]) = MaxReplayKeys
    /\ ret.op = "get_model_input_batches"
    /\ ret.arg[3]

\* C3: the state's step counter is 0 after construction and equals the number
\* of training batches processed so far, after any sequence of train,
\* eval_loss and fit calls (so it never decreases); the state of a step is the
\* output of the step before it.
C3_StepCounts ==
    /\ \A r \in DOMAIN State : State[r].step = nTrained
    /\ nTrained = IF TMesh.set THEN step_of_state(TMesh, State)[1]
                  ELSE step_of_state(TMesh, State)
    /\ stateRef = nTrained

\* A fit call is evaluating after training steps.
C3_Witness ==
    /\ nTrained >= 2
    /\ pc = "eval"
    /\ caller = "fit"
    /\ Len(losses) >= 1

\* C4 as claimed: whatever a caller took through Trainer.params before a train
\* step is unchanged and still usable after any number of later train steps,
\* with a mesh as without.
C4_SnapshotAlwaysUsable ==
    snap.taken =>
        /\ snap.ref \in DOMAIN heap
        /\ heap[snap.ref].live
        /\ params_of_state(TMesh, heap[snap.ref].val) = snap.val

\* C4, amended: no step writes into the buffers of an earlier state, so what a
\* caller took through Trainer.params never reads as a different value; without
\* a mesh it stays usable after any number of later train steps; with a mesh it
\* stays usable as long as no train step has run since it was taken (the next
\* train step donates the state it is given, and the buffers may be deleted).
C4_SnapshotUnchanged ==
    snap.taken =>
        /\ snap.ref \in DOMAIN heap
        /\ heap[snap.ref].live =>
              params_of_state(TMesh, heap[snap.ref].val) = snap.val
        /\ ~TMesh.set => heap[snap.ref].live
        /\ snap.ref = stateRef => heap[snap.ref].live

\* Without a mesh, two train steps ran after the parameters were read, and
\* they changed the parameters.
C4_Witness ==
    /\ snap.taken
    /\ ~TMesh.set
    /\ stateRef >= snap.ref + 2
    /\ params_of_state(TMesh, State) # snap.val

\* C5: eval_loss has no effect on training: no step of it (its call, its
\* batches, its return) changes the training state or the Deployer's RNG
\* state, and it draws no key.
C5_EvalFrame ==
    [][(pc = "eval" \/ pc' = "eval") =>
          /\ heap' = heap
          /\ stateRef' = stateRef
          /\ rng' = rng
          /\ keys' = keys
          /\ nTrained' = nTrained]_vars

\* eval_loss has processed all of its two or more batches after some training.
C5_Witness ==
    /\ pc = "eval"
    /\ todo = 0
    /\ Len(losses) >= 2
    /\ nTrained >= 1

\* C6: without a mesh, the parameters, the optimizer state and the step
\* counter are the same on every replica after every train step, whatever the
\* replicas' batches.
C6_ReplicasAgree ==
    ~TMesh.set => \A r1, r2 \in DOMAIN State : State[r1] = State[r2]

\* Two replicas computed different losses (so different gradients) in a train
\* step.
C6_Witness ==
    /\ ~TMesh.set
    /\ last_metrics.kind = "train"
    /\ nTrained >= 2
    /\ \E r1, r2 \in DOMAIN perReplica : perReplica[r1] # perReplica[r2]

\* C7: the loss a train or eval step delivers is the mean of the replicas'
\* losses, the sum divided by their number R (rounded down, in the integers of
\* this model): L when every replica computed L, never R * L.  With a mesh it
\* is the loss of the one program.
C7_MetricIsMean ==
    last_metrics.kind # "none" =>
        LET R == Cardinality(DOMAIN perReplica)
            total == SumOver(perReplica, DOMAIN perReplica)
        IN IF TMesh.set
           THEN last_metrics.m[1].loss = perReplica[1]
           ELSE /\ R * last_metrics.m.loss <= total
                /\ total < R * last_metrics.m.loss + R
                /\ \A v \in 0..(PMod * PMod) :
                      (\A r \in DOMAIN perReplica : perReplica[r] = v)
                          => last_metrics.m.loss = v

\* Two replicas computed the same positive loss in a train step.
C7_Witness ==
    /\ ~TMesh.set
    /\ last_metrics.kind = "train"
    /\ Cardinality(DOMAIN perReplica) = 2
    /\ perReplica[1] = perReplica[2]
    /\ perReplica[1] > 0
    /\ last_metrics.m.loss = perReplica[1]

\* C8: process_batch_size(b) returns (local, global) with, without a mesh,
\* local = b * local device count and global = local * host count; with a
\* mesh, global = b * size of the data-parallel axis and local the host's share
\* of it; in both modes global is a positive multiple of local; and the call
\* leaves the Deployer's state as it was.
C8_BatchSizes ==
    /\ [](ret.op = "process_batch_size" =>
            LET m == mesh[ret.d]
                b == ret.arg
                local == ret.val[1]
                global == ret.val[2]
            IN /\ ~m.set => /\ local = b * env.devs
                            /\ global = local * env.hosts
               /\ m.set => /\ global = b * m.dp
                           /\ local * m.dp = global * m.local_dp
               /\ local > 0
               /\ global > 0
               /\ global % local = 0)
    /\ [][ret'.op = "process_batch_size" =>
             UNCHANGED <<env, seed, mesh, rng, keys, parents>>]_vars

\* Two hosts with two devices each, no mesh, per-device batch size 2: local 4,
\* global 8.
C8_Witness ==
    /\ ret.op = "process_batch_size"
    /\ ~mesh[ret.d].set
    /\ env = [hosts |-> 2, devs |-> 2]
    /\ ret.arg = 2
    /\ ret.val = <<4, 8>>
    /\ Len(keys[ret.d]) >= 1

\* The events of the running fit call that are training passes.
IsTrain(e) == e.ev = "train"
TrainPasses == SelectSeq(trace, IsTrain)
InEpoch == pc \in {"train", "fit_eval", "eval", "fit_pred", "fit_raised"}

\* C9: fit runs one training pass per epoch, in increasing epoch_idx order,
\* n_epochs of them when it returns; with eval_examples = None it calls neither
\* eval_loss nor the predictor, writes no file and raises nothing; with
\* eval_examples, the evaluation of epoch i comes after the training pass of
\* epoch i and before that of epoch i + 1.
C9_MissingEval ==
    fit.active =>
        /\ \A k \in 1..Len(TrainPasses) : TrainPasses[k].epoch = k - 1
        /\ Len(TrainPasses) = fit.epoch_idx + (IF InEpoch THEN 1 ELSE 0)
        /\ fit.epoch_idx <= fit.n_epochs
        /\ InEpoch => fit.epoch_idx < fit.n_epochs
        /\ ~fit.eval_given =>
              /\ \A k \in 1..Len(trace) : trace[k].ev \in {"train", "no_eval"}
              /\ pc \notin {"eval", "fit_pred", "fit_raised"}
        /\ \A k \in 1..Len(trace) :
              /\ \A j \in 1..k : trace[j].epoch <= trace[k].epoch
              /\ \E j \in 1..k : trace[j] = [ev |-> "train",
                                             epoch |-> trace[k].epoch]

\* A fit call without eval_examples, but with eval_loss and a predictor, is
\* about to return after its two epochs.
C9_Witness ==
    /\ fit.active
    /\ ~fit.eval_given
    /\ fit.eval_loss
    /\ fit.eval_predictor
    /\ fit.n_epochs = 2
    /\ fit.epoch_idx = 2
    /\ pc = "fit_epoch"
    /\ nTrained >= 2

HasEvent(what, i) == \E k \in 1..Len(trace) : trace[k] = [ev |-> what, epoch |-> i]

\* C10 as claimed: whenever JSON serialization of an epoch's results fails,
\* they are written in pickle form, the epoch is completed (nothing is raised,
\* eval_metric_fn is still applied, the log line is written) and fit goes on
\* to the remaining epochs; when it succeeds no pickle file is written.
C10_AlwaysFallsBack ==
    fit.active =>
        \A i \in 0..MaxEpochs :
            /\ HasEvent("json_failed", i) =>
                  /\ HasEvent("pkl", i)
                  /\ fit.eval_metric_fn => HasEvent("metric", i)
                  /\ HasEvent("log", i)
                  /\ fit.epoch_idx > i
            /\ HasEvent("json", i) => ~HasEvent("pkl", i)

\* C10, amended: the same, provided the results can be pickled; when
\* pickle.dump fails as well, its exception leaves fit.
C10_FallsBackIfPicklable ==
    fit.active =>
        \A i \in 0..MaxEpochs :
            /\ (HasEvent("json_failed", i) /\ ~HasEvent("pkl_failed", i)) =>
                  /\ HasEvent("pkl", i)
                  /\ fit.eval_metric_fn => HasEvent("metric", i)
                  /\ HasEvent("log", i)
                  /\ fit.epoch_idx > i
            /\ HasEvent("json", i) => ~HasEvent("pkl", i)
            /\ HasEvent("pkl_failed", i) =>
                  /\ HasEvent("json_failed", i)
                  /\ pc = "fit_raised"
                  /\ fit.epoch_idx = i
            /\ pc = "fit_raised" => HasEvent("pkl_failed", fit.epoch_idx)

\* The JSON serialization of epoch 0 failed, the results were pickled, the
\* metric function ran, and epoch 1 is training.
C10_Witness ==
    /\ fit.active
    /\ fit.eval_metric_fn
    /\ HasEvent("json_failed", 0)
    /\ HasEvent("pkl", 0)
    /\ HasEvent("metric", 0)
    /\ HasEvent("train", 1)
    /\ pc = "train"

\* C11: lazy step compilation is a one-way, one-time transition.  The Trainer
\* starts with both compiled step functions absent; over any interleaving of
\* train and eval_loss calls setup_running_step runs at most once, on the
\* first batch either loop processes, and sets both functions together;
\* afterwards neither is ever replaced or reset; and a step that processes
\* no batch (a call that yields zero batches included) leaves them as they
\* are.
InLoop == pc \in {"train", "eval"} /\ todo > 0

C11_CompileOnce ==
    /\ p_train_step = NotCompiled /\ p_eval_step = NotCompiled
    /\ [](/\ n_setup \in {0, 1}
          /\ n_setup = 0 =>
                p_train_step = NotCompiled /\ p_eval_step = NotCompiled
          /\ n_setup = 1 =>
                /\ p_train_step.kind = p_eval_step.kind
                /\ p_train_step.kind # "None"
                /\ p_train_step.data_spec = p_eval_step.data_spec
                /\ p_train_step.fn = "train"
                /\ p_eval_step.fn = "eval"
          /\ (nTrained > 0 \/ Len(losses) > 0) => n_setup = 1)
    /\ [][/\ p_train_step # NotCompiled =>
                UNCHANGED <<p_train_step, p_eval_step, n_setup>>
          /\ p_eval_step # NotCompiled =>
                UNCHANGED <<p_train_step, p_eval_step, n_setup>>
          /\ ~InLoop => UNCHANGED <<p_train_step, p_eval_step, n_setup>>
          /\ InLoop => n_setup' = 1]_vars

\* Compiled by a train batch, then an eval_loss call has processed a batch
\* with the same functions.
C11_Witness ==
    /\ n_setup = 1
    /\ nTrained >= 1
    /\ pc = "eval"
    /\ Len(losses) >= 1
    /\ p_eval_step.fn = "eval"

\* A batch processed after the step functions were compiled.
LaterBatch == InLoop /\ n_setup = 1

StepFailed == pc' \in {"raised", "fit_raised"}

StateUntouched == stateRef' = stateRef /\ heap' = heap /\ nTrained' = nTrained

\* C12 (as claimed): once the step functions are compiled from the first
\* batch, every later batch, in train or in eval_loss, matches the shape
\* captured at compilation, or the step fails and the training state is left
\* unchanged.
C12_MismatchAlwaysFails ==
    [][(LaterBatch /\ batch_shape # setup_batch)
          => (StepFailed /\ StateUntouched)]_vars

\* C12 (amended): compilation captures no batch size, and a number of
\* dimensions only with a mesh.  A later batch is refused exactly when the
\* Deployer has a mesh and the batch's fields have fewer dimensions than the
\* first batch's had: then the step fails and the training state is left
\* unchanged.  Every other later batch, whatever its batch size, is
\* processed as usual: a train step replaces the state by its successor,
\* an eval step leaves it alone.
C12_RefusesOnlyFewerDims ==
    [][LaterBatch =>
          IF TMesh.set /\ batch_shape.rank < setup_batch.rank
          THEN StepFailed /\ StateUntouched
          ELSE /\ pc' = pc
               /\ todo' = todo - 1
               /\ pc = "train" =>
                     /\ nTrained' = nTrained + 1
                     /\ \A r \in DOMAIN State :
                           heap'[stateRef'].val[r].step = State[r].step + 1
               /\ pc = "eval" =>
                     /\ stateRef' = stateRef
                     /\ heap'[stateRef'].val = State
                     /\ Len(losses') = Len(losses) + 1]_vars

\* A train or eval_loss call of the user was refused a batch by the step
\* functions compiled from a batch with more dimensions.
C12_Witness ==
    /\ pc = "raised"
    /\ n_setup = 1
    /\ TMesh.set
    /\ setup_batch.rank = 2

\* A later batch of another batch size than the first batch's was processed
\* by eval_loss.
C12_OtherSizeProcessed ==
    /\ pc = "eval"
    /\ Len(losses) >= 1
    /\ nTrained >= 1
    /\ batch_shape.per_device_batch_size # setup_batch.per_device_batch_size

\* C13: the execution mode is fixed by the presence of a mesh when the
\* Deployer is constructed and never changes, and every choice that depends
\* on the mode agrees with it throughout: batches get a leading device axis
\* (do_shard), the state is replicated, the step functions are compiled as a
\* parallel map that averages across replicas (under_pmap),
\* process_to_run_model replicates and process_to_deliver un-replicates, all
\* exactly when there is no mesh; and in both modes
\* process_to_deliver(process_to_run_model(x)) = x.
NoMeshMode == ~TMesh.set

Devices == 1..(env.hosts * env.devs)

C13_ModeConsistent ==
    /\ [](/\ DOMAIN State = (IF NoMeshMode THEN Devices ELSE {1})
          /\ NoMeshMode => \A r \in Devices : State[r] = State[1]
          /\ n_setup > 0 =>
                /\ (p_train_step.kind = "pmap") = NoMeshMode
                /\ (p_eval_step.kind = "pmap") = NoMeshMode
                /\ (p_train_step.kind = "pjit") = ~NoMeshMode
                /\ (p_eval_step.kind = "pjit") = ~NoMeshMode
                /\ p_train_step.under_pmap = NoMeshMode
                /\ p_eval_step.under_pmap = NoMeshMode
          /\ (ret.op = "get_model_input_batches" /\ ret.d = T) =>
                ret.val.do_shard = NoMeshMode
          /\ (ret.op = "process_to_run_model" /\ ret.d = T) =>
                /\ ret.val = IF NoMeshMode THEN [r \in Devices |-> ret.arg]
                              ELSE ret.arg
                /\ process_to_deliver(TMesh, ret.val) = ret.arg
          /\ (ret.op = "process_to_deliver" /\ ret.d = T) =>
                ret.val = IF NoMeshMode THEN ret.arg[1] ELSE ret.arg)
    /\ [][mesh' = mesh]_vars

\* Without a mesh on two devices: a train step has run under pmap and
\* process_to_run_model has replicated a value.
C13_Witness ==
    /\ NoMeshMode
    /\ Cardinality(Devices) = 2
    /\ p_train_step.kind = "pmap"
    /\ nTrained >= 1
    /\ ret.op = "process_to_run_model"
    /\ ret.d = T

\* With a mesh: a train step has run under pjit and get_model_input_batches
\* has made batches without a device axis.
C13_MeshReached ==
    /\ ~NoMeshMode
    /\ p_train_step.kind = "pjit"
    /\ nTrained >= 1
    /\ ret.op = "get_model_input_batches"
    /\ ~ret.val.do_shard
====
